---- MODULE Spec2Model ----
(***************************************************************************)
(* KombuRPCClient (mistral/engine/rpc_backend/kombu/kombu_client.py):      *)
(* caller threads running _call concurrently with the response listener.   *)
(* The listener (kombu_listener.KombuRPCListener) is not part of the       *)
(* sources at hand; its registry operations follow the design document.    *)
(***************************************************************************)
EXTENDS Integers, FiniteSets, Sequences, TLC

(* ------------------------------ bounds -------------------------------- *)

\* Total number of calls (correlation ids) issued in a behaviour.
MaxCalls == 2

\* Size of the producer pool kombu.producers[conn].
PoolSize == 1

\* Caller threads.
Procs == {"t1", "t2"}

\* Keyword arguments (a, b) each thread passes to the remote method "add".
ArgsOf == [p \in Procs |-> IF p = "t1" THEN <<1, 2>> ELSE <<10, 20>>]

Ids == 1..MaxCalls

(* --------------------------- python objects --------------------------- *)

PyNone == [type |-> "NoneType", message |-> "", value |-> 0]

PyInt(n) == [type |-> "int", message |-> "", value |-> n]

PyExc(t, m) == [type |-> t, message |-> m, value |-> 0]

\* exc.MistralException("RPC Request timeout")
TimeoutExc == PyExc("MistralException", "RPC Request timeout")

\* What producer.publish raises when the broker refuses the message.
PublishExc == PyExc("PublishError", "publish failed")

\* Errors the remote dispatcher may report.  A remote engine may itself fail
\* with a MistralException, also one caused by an RPC timeout of its own.
RemoteErrors == {PyExc("ValueError", "bad arg"), PyExc("MistralException", "RPC Request timeout")}

\* What self._listener.add_listener raises when it fails.
AddListenerExc == PyExc("AddListenerError", "add_listener failed")

NoExc == PyNone

\* The local variable `body` outside a call.
NoBody == [rpc_method |-> "", arguments |-> <<0, 0>>, async |-> FALSE]

\* The value of the local variable `result` before get_result returned.
NoResult == [type |-> "none", result |-> PyNone]

VARIABLES
    pc,         \* position of each caller thread in _call
    cid,        \* local correlation_id of each thread
    async,      \* parameter async of each thread's call
    body,       \* local request body of each thread
    result,     \* local result of each thread
    exc,        \* exception in flight in each thread
    registry,   \* the listener's map correlation id -> pending call
    producers,  \* threads holding a producer of the pool
    requests,   \* request messages in the broker's topic queue
    replies,    \* messages in the client's callback queue
    sent,       \* every response envelope the dispatcher published
    hist,       \* per correlation id: what its call did
    nextId,     \* the next fresh correlation id
    lock        \* holder of the Registry's structural lock

vars == <<pc, cid, async, body, result, exc, registry, producers, requests, replies, sent, hist, nextId, lock>>

(* ------------------------------ history ------------------------------- *)

NoOutcome == [kind |-> "pending", payload |-> PyNone]

Returned(v) == [kind |-> "returned", payload |-> v]

Raised(e) == [kind |-> "raised", payload |-> e]

NoCall == [kind |-> "none", status |-> "none", is_async |-> "none", adds |-> 0, add_failed |-> FALSE, add_inserted |-> FALSE, removes |-> 0, removed_at |-> "none", waits |-> 0, pubs |-> 0, published |-> FALSE, registered_at_publish |-> FALSE, timed_out |-> FALSE, got |-> NoResult, outcome |-> NoOutcome]

(* ------------------- the listener's registry (4.3) -------------------- *)

\* Nobody holds the Registry's structural lock.
NoHolder == "none"

\* The lock is scoped to one map operation: insert, lookup or delete takes it
\* when it is free and releases it before the operation returns.
LockFree == lock = NoHolder

\* Variant: get_result waits for the response inside the locked section.
LockHeldWhileWaiting(p) == p

\* What a caller blocked in get_result holds of the structural lock: the wait
\* uses the Pending Call's private synchronization handle.
LockWhileWaiting(p) == NoHolder

\* A Pending Call as add_listener creates it.
WaitingCall == [state |-> "Waiting", outcome |-> NoResult]

\* add_listener(correlation_id): inserts a new Waiting Pending Call.
AddListener(reg, c) == [k \in DOMAIN reg \cup {c} |-> IF k = c THEN WaitingCall ELSE reg[k]]

\* remove_listener(correlation_id): unconditionally, idempotently deletes the entry.
RemoveListener(reg, c) == [k \in DOMAIN reg \ {c} |-> reg[k]]

\* get_result would return at once: the Pending Call is Fulfilled.
CanGet(reg, c) == c \in DOMAIN reg /\ reg[c].state = "Fulfilled"

\* get_result can only time out: the Pending Call is still Waiting.
CanTimeOut(reg, c) == c \in DOMAIN reg /\ reg[c].state = "Waiting"

\* The timed wait elapsed: the Pending Call becomes TimedOut.
MarkTimedOut(reg, c) == [reg EXCEPT ![c].state = "TimedOut"]

\* decode_response succeeds on a well-formed Response Envelope only.
Decodes(m) == m.kind \in {"Result", "Error"}

\* The {TYPE, RESULT} dictionary the listener hands to the waiting caller.
Decoded(m) == [type |-> IF m.kind = "Error" THEN "error" ELSE "result", result |-> m.payload]

\* The Pending Call the listener leaves when it fulfils one with message m.
Fulfilled(m) == [state |-> "Fulfilled", outcome |-> Decoded(m)]

\* Variant: the listener creates the entry of an id it does not know
\* (setdefault) and fulfils it.
RouteInserting(reg, m) ==
    IF ~Decodes(m) THEN reg
    ELSE [k \in DOMAIN reg \cup {m.correlation_id} |-> IF k = m.correlation_id THEN Fulfilled(m) ELSE reg[k]]

\* Variant: the handler of a decode error restarts the listener with an
\* empty Registry.
RouteResetOnDecodeError(reg, m) ==
    IF ~Decodes(m) THEN <<>>
    ELSE IF m.correlation_id \notin DOMAIN reg THEN reg
    ELSE [reg EXCEPT ![m.correlation_id] = Fulfilled(m)]

\* The listener's algorithm for one delivered message (4.3, steps 1 to 4):
\* a decode error or an absent correlation id drops the message; a Pending
\* Call that is present is marked Fulfilled with the decoded outcome,
\* whatever its state; the entry is never removed here.
Route(reg, m) ==
    IF ~Decodes(m) THEN reg
    ELSE IF m.correlation_id \notin DOMAIN reg THEN reg
    ELSE [reg EXCEPT ![m.correlation_id] = Fulfilled(m)]

(* ----------------------------- messages ------------------------------- *)

\* self.queue_name, the routing key of the private callback queue.
QueueName == "callback"

\* Variant: the body is built with a constant 'async': False.
RequestBodyNeverAsync(p, a) == [rpc_method |-> "add", arguments |-> ArgsOf[p], async |-> FALSE]

\* body = {'rpc_ctx': ..., 'rpc_method': method, 'arguments': kwargs, 'async': async}
RequestBody(p, a) == [rpc_method |-> "add", arguments |-> ArgsOf[p], async |-> a]

\* The message producer.publish sends.
Request(p) == [correlation_id |-> cid[p], reply_to |-> QueueName, body |-> body[p]]

\* The stub dispatcher of the scenarios: "add" returns the sum.
Sum(args) == args[1] + args[2]

ResultEnvelope(r) == [correlation_id |-> r.correlation_id, kind |-> "Result", payload |-> PyInt(Sum(r.body.arguments))]

ErrorEnvelope(r, e) == [correlation_id |-> r.correlation_id, kind |-> "Error", payload |-> e]

\* The Response Envelopes the dispatcher may publish for request r.
Responses(r) == {ResultEnvelope(r)} \cup {ErrorEnvelope(r, e) : e \in RemoteErrors}

\* A message of the callback queue that does not decode.
Malformed == [correlation_id |-> 0, kind |-> "Malformed", payload |-> PyNone]

(* -------------------------------- init -------------------------------- *)

Init ==
    /\ pc = [p \in Procs |-> "idle"]
    /\ cid = [p \in Procs |-> 0]
    /\ async = [p \in Procs |-> FALSE]
    /\ body = [p \in Procs |-> NoBody]
    /\ result = [p \in Procs |-> NoResult]
    /\ exc = [p \in Procs |-> NoExc]
    /\ registry = <<>>
    /\ producers = {}
    /\ requests = {}
    /\ replies = {}
    /\ sent = {}
    /\ hist = [c \in Ids |-> NoCall]
    /\ nextId = 1
    /\ lock = NoHolder

(* --------------------------- caller threads --------------------------- *)

\* Variant: the uuid is generated once, when the client is built, and every
\* call uses it.
SharedCorrelationId == CHOOSE c \in Ids : \A d \in Ids : c <= d

\* utils.generate_unicode_uuid(): an id never used before.
NewCorrelationId == nextId

\* Variant: the id is kept in a field of the client that every call overwrites,
\* so a waiting caller reads the id of the latest call.
WaitIdShared(p) == nextId - 1

\* The id the caller passes to _wait_for_result: its own correlation_id.
WaitId(p) == cid[p]

\* Variant: the listener is not registered before the request is published.
CallNoRegister(p, a) ==
    /\ pc[p] = "idle"
    /\ nextId <= MaxCalls
    /\ a \/ LockFree
    /\ cid' = [cid EXCEPT ![p] = NewCorrelationId]
    /\ nextId' = nextId + 1
    /\ async' = [async EXCEPT ![p] = a]
    /\ body' = [body EXCEPT ![p] = RequestBody(p, a)]
    /\ hist' = [hist EXCEPT ![NewCorrelationId] = [NoCall EXCEPT !.kind = IF a THEN "async" ELSE "sync", !.status = "running"]]
    /\ pc' = [pc EXCEPT ![p] = "acquire"]
    /\ UNCHANGED <<registry, result, exc, producers, requests, replies, sent, lock>>

\* Variant: add_listener is called whatever the async flag.
CallAlwaysRegister(p, a) ==
    /\ pc[p] = "idle"
    /\ nextId <= MaxCalls
    /\ a \/ LockFree
    /\ cid' = [cid EXCEPT ![p] = NewCorrelationId]
    /\ nextId' = nextId + 1
    /\ async' = [async EXCEPT ![p] = a]
    /\ body' = [body EXCEPT ![p] = RequestBody(p, a)]
    /\ registry' = AddListener(registry, NewCorrelationId)
    /\ hist' = [hist EXCEPT ![NewCorrelationId] = [NoCall EXCEPT !.kind = IF a THEN "async" ELSE "sync", !.status = "running", !.adds = 1]]
    /\ pc' = [pc EXCEPT ![p] = "acquire"]
    /\ UNCHANGED <<result, exc, producers, requests, replies, sent, lock>>

\* What a failed add_listener leaves of the Registry: it raised before or
\* after it inserted the Pending Call.
AfterFailedAdd(reg, c) == {reg, AddListener(reg, c)}

\* _call, from its start to add_listener: the correlation id, the body and,
\* if not async, self._listener.add_listener(correlation_id).  The call of
\* add_listener is inside the try block: when it raises, nothing is published
\* and the exception propagates through the finally block.
Call(p, a) ==
    /\ pc[p] = "idle"
    /\ nextId <= MaxCalls
    /\ a \/ LockFree
    /\ cid' = [cid EXCEPT ![p] = NewCorrelationId]
    /\ nextId' = nextId + 1
    /\ async' = [async EXCEPT ![p] = a]
    /\ body' = [body EXCEPT ![p] = RequestBody(p, a)]
    /\ \/ /\ registry' = IF ~a THEN AddListener(registry, NewCorrelationId) ELSE registry
          /\ hist' = [hist EXCEPT ![NewCorrelationId] = [NoCall EXCEPT !.kind = IF a THEN "async" ELSE "sync", !.status = "running", !.adds = IF ~a THEN 1 ELSE 0]]
          /\ exc' = exc
          /\ pc' = [pc EXCEPT ![p] = "acquire"]
       \/ /\ ~a
          /\ registry' \in AfterFailedAdd(registry, NewCorrelationId)
          /\ hist' = [hist EXCEPT ![NewCorrelationId] = [NoCall EXCEPT !.kind = "sync", !.status = "running", !.adds = 1, !.add_failed = TRUE, !.add_inserted = (NewCorrelationId \in DOMAIN registry')]]
          /\ exc' = [exc EXCEPT ![p] = AddListenerExc]
          /\ pc' = [pc EXCEPT ![p] = "finally"]
    /\ UNCHANGED <<result, producers, requests, replies, sent, lock>>

sync_call(p) == Call(p, FALSE)

async_call(p) == Call(p, TRUE)

\* kombu.producers[self.conn].acquire(block=True): blocks while the pool is empty.
Acquire(p) ==
    /\ pc[p] = "acquire"
    /\ Cardinality(producers) < PoolSize
    /\ producers' = producers \cup {p}
    /\ pc' = [pc EXCEPT ![p] = "publish"]
    /\ UNCHANGED <<cid, async, body, result, exc, registry, requests, replies, sent, hist, nextId, lock>>

\* Variant: the wait for the result is inside the with block, so a sync call
\* keeps its producer while it waits.
PublishOkWaitsInside(p) ==
    /\ pc[p] = "publish"
    /\ requests' = requests \cup {Request(p)}
    /\ hist' = [hist EXCEPT ![cid[p]].pubs = @ + 1, ![cid[p]].published = TRUE, ![cid[p]].is_async = IF Request(p).body.async THEN "true" ELSE "false", ![cid[p]].registered_at_publish = (cid[p] \in DOMAIN registry)]
    /\ pc' = [pc EXCEPT ![p] = IF async[p] THEN "release" ELSE "wait"]
    /\ UNCHANGED <<cid, async, body, result, exc, registry, producers, replies, sent, nextId, lock>>

\* producer.publish(...) returns: the request is in the topic queue; the
\* caller is still inside the with block and holds the producer.
PublishOk(p) ==
    /\ pc[p] = "publish"
    /\ requests' = requests \cup {Request(p)}
    /\ hist' = [hist EXCEPT ![cid[p]].pubs = @ + 1, ![cid[p]].published = TRUE, ![cid[p]].is_async = IF Request(p).body.async THEN "true" ELSE "false", ![cid[p]].registered_at_publish = (cid[p] \in DOMAIN registry)]
    /\ pc' = [pc EXCEPT ![p] = "release"]
    /\ UNCHANGED <<cid, async, body, result, exc, registry, producers, replies, sent, nextId, lock>>

\* Variant: the producer is acquired and released by hand, and the release
\* is skipped when publish raises.
PublishFailLeaks(p) ==
    /\ pc[p] = "publish"
    /\ exc' = [exc EXCEPT ![p] = PublishExc]
    /\ hist' = [hist EXCEPT ![cid[p]].pubs = @ + 1]
    /\ pc' = [pc EXCEPT ![p] = "finally"]
    /\ UNCHANGED <<cid, async, body, result, registry, producers, requests, replies, sent, nextId, lock>>

\* Variant: a failed publish is retried with the producer still held.
PublishFailRetried(p) ==
    /\ pc[p] = "publish"
    /\ hist[cid[p]].pubs < 2
    /\ hist' = [hist EXCEPT ![cid[p]].pubs = @ + 1]
    /\ UNCHANGED <<pc, cid, async, body, result, exc, registry, producers, requests, replies, sent, nextId, lock>>

\* producer.publish(...) raises: nothing reaches the topic queue and the
\* exception is in flight inside the with block.
PublishFail(p) ==
    /\ pc[p] = "publish"
    /\ exc' = [exc EXCEPT ![p] = PublishExc]
    /\ hist' = [hist EXCEPT ![cid[p]].pubs = @ + 1]
    /\ pc' = [pc EXCEPT ![p] = "release"]
    /\ UNCHANGED <<cid, async, body, result, registry, producers, requests, replies, sent, nextId, lock>>

\* Where the caller goes when it has left the with block: to the finally
\* block with an exception in flight or after the bare return of an async
\* call, to _wait_for_result otherwise.
AfterWith(p) == IF exc[p] # NoExc \/ async[p] THEN "finally" ELSE "wait"

\* Leaving the with block, normally or with the exception of publish in
\* flight, returns the producer to the pool.
Release(p) ==
    /\ pc[p] = "release"
    /\ producers' = producers \ {p}
    /\ pc' = [pc EXCEPT ![p] = AfterWith(p)]
    /\ lock' = IF AfterWith(p) = "wait" THEN LockWhileWaiting(p) ELSE lock
    /\ UNCHANGED <<cid, async, body, result, exc, registry, requests, replies, sent, hist, nextId>>

\* Variant: the type tag is compared with a value the listener never writes.
RaisesNever(res) == NoExc

\* if res_type == 'error': raise res_object
Raises(res) == IF res.type = "error" THEN res.result ELSE NoExc

\* _wait_for_result returns the outcome of the fulfilled call:
\* res_type = result[TYPE]; res_object = result[RESULT]; raise on 'error'.
GetResult(p) ==
    /\ pc[p] = "wait"
    /\ lock \in {NoHolder, LockWhileWaiting(p)}
    /\ lock' = NoHolder
    /\ CanGet(registry, WaitId(p))
    /\ result' = [result EXCEPT ![p] = registry[WaitId(p)].outcome]
    /\ exc' = [exc EXCEPT ![p] = Raises(registry[WaitId(p)].outcome)]
    /\ hist' = [hist EXCEPT ![cid[p]].waits = @ + 1, ![cid[p]].got = registry[WaitId(p)].outcome]
    /\ pc' = [pc EXCEPT ![p] = "finally"]
    /\ UNCHANGED <<cid, async, body, registry, producers, requests, replies, sent, nextId>>

\* Variant: the wait has no timeout and blocks until a response arrives.
WaitForever(p) ==
    /\ pc[p] = "wait"
    /\ FALSE
    /\ UNCHANGED vars

\* Variant: when the timed wait elapses the caller waits once more instead
\* of raising.
WaitTimeoutRetries(p) ==
    /\ pc[p] = "wait"
    /\ lock \in {NoHolder, LockWhileWaiting(p)}
    /\ lock' = NoHolder
    /\ CanTimeOut(registry, WaitId(p))
    /\ registry' = MarkTimedOut(registry, WaitId(p))
    /\ hist' = [hist EXCEPT ![cid[p]].waits = @ + 1, ![cid[p]].timed_out = TRUE]
    /\ UNCHANGED <<pc, cid, async, body, result, exc, producers, requests, replies, sent, nextId>>

\* Variant: the timeout handler removes the listener itself, before the finally block.
WaitTimeoutRemoves(p) ==
    /\ pc[p] = "wait"
    /\ lock \in {NoHolder, LockWhileWaiting(p)}
    /\ lock' = NoHolder
    /\ CanTimeOut(registry, WaitId(p))
    /\ registry' = RemoveListener(registry, cid[p])
    /\ exc' = [exc EXCEPT ![p] = TimeoutExc]
    /\ hist' = [hist EXCEPT ![cid[p]].waits = @ + 1, ![cid[p]].timed_out = TRUE, ![cid[p]].removes = @ + 1, ![cid[p]].removed_at = hist[cid[p]].status]
    /\ pc' = [pc EXCEPT ![p] = "finally"]
    /\ UNCHANGED <<cid, async, body, result, producers, requests, replies, sent, nextId>>

\* _wait_for_result: the timed wait elapses (queue.Empty) and is re-raised
\* as MistralException("RPC Request timeout").
WaitTimeout(p) ==
    /\ pc[p] = "wait"
    /\ lock \in {NoHolder, LockWhileWaiting(p)}
    /\ lock' = NoHolder
    /\ CanTimeOut(registry, WaitId(p))
    /\ registry' = MarkTimedOut(registry, WaitId(p))
    /\ exc' = [exc EXCEPT ![p] = TimeoutExc]
    /\ hist' = [hist EXCEPT ![cid[p]].waits = @ + 1, ![cid[p]].timed_out = TRUE]
    /\ pc' = [pc EXCEPT ![p] = "finally"]
    /\ UNCHANGED <<cid, async, body, result, producers, requests, replies, sent, nextId>>

\* Variant: the cleanup follows the try block instead of being its finally
\* clause, so it is skipped when an exception is in flight.
FinallyOnSuccess(p) ==
    /\ pc[p] = "finally"
    /\ async[p] \/ LockFree
    /\ IF ~async[p] /\ exc[p] = NoExc
       THEN /\ registry' = RemoveListener(registry, cid[p])
            /\ hist' = [hist EXCEPT ![cid[p]].removes = @ + 1, ![cid[p]].removed_at = hist[cid[p]].status]
       ELSE UNCHANGED <<registry, hist>>
    /\ pc' = [pc EXCEPT ![p] = "exit"]
    /\ UNCHANGED <<cid, async, body, result, exc, producers, requests, replies, sent, nextId, lock>>

\* Variant: the correlation id is kept in a field of the client, so the
\* cleanup removes the listener of the latest call.
FinallyRemovesLatest(p) ==
    /\ pc[p] = "finally"
    /\ async[p] \/ LockFree
    /\ IF ~async[p]
       THEN /\ registry' = RemoveListener(registry, nextId - 1)
            /\ hist' = [hist EXCEPT ![cid[p]].removes = @ + 1, ![cid[p]].removed_at = hist[cid[p]].status]
       ELSE UNCHANGED <<registry, hist>>
    /\ pc' = [pc EXCEPT ![p] = "exit"]
    /\ UNCHANGED <<cid, async, body, result, exc, producers, requests, replies, sent, nextId, lock>>

\* finally: if not async: self._listener.remove_listener(correlation_id)
Finally(p) ==
    /\ pc[p] = "finally"
    /\ async[p] \/ LockFree
    /\ IF ~async[p]
       THEN /\ registry' = RemoveListener(registry, cid[p])
            /\ hist' = [hist EXCEPT ![cid[p]].removes = @ + 1, ![cid[p]].removed_at = hist[cid[p]].status]
       ELSE UNCHANGED <<registry, hist>>
    /\ pc' = [pc EXCEPT ![p] = "exit"]
    /\ UNCHANGED <<cid, async, body, result, exc, producers, requests, replies, sent, nextId, lock>>

\* Variant: a return inside the finally block swallows the exception in flight.
OutcomeSwallowed(p) ==
    IF async[p] THEN Returned(PyNone)
    ELSE Returned(result[p].result)

\* What the caller of _call observes: the exception in flight, None for an
\* async call (the bare return), res_object otherwise.
Outcome(p) ==
    IF exc[p] # NoExc THEN Raised(exc[p])
    ELSE IF async[p] THEN Returned(PyNone)
    ELSE Returned(result[p].result)

\* _call returns or raises to its caller.
Exit(p) ==
    /\ pc[p] = "exit"
    /\ hist' = [hist EXCEPT ![cid[p]].status = "done", ![cid[p]].outcome = Outcome(p)]
    /\ pc' = [pc EXCEPT ![p] = "idle"]
    /\ cid' = [cid EXCEPT ![p] = 0]
    /\ async' = [async EXCEPT ![p] = FALSE]
    /\ body' = [body EXCEPT ![p] = NoBody]
    /\ result' = [result EXCEPT ![p] = NoResult]
    /\ exc' = [exc EXCEPT ![p] = NoExc]
    /\ UNCHANGED <<registry, producers, requests, replies, sent, nextId, lock>>

\* The steps of a thread inside _call.
Thread(p) ==
    \/ Acquire(p)
    \/ PublishOk(p)
    \/ PublishFail(p)
    \/ Release(p)
    \/ GetResult(p)
    \/ WaitTimeout(p)
    \/ Finally(p)
    \/ Exit(p)

(* ----------------------- dispatcher and broker ------------------------ *)

\* The remote dispatcher consumes a request and publishes one Response
\* Envelope with the request's correlation_id to its reply_to queue.
Dispatch(r, e) ==
    /\ r \in requests
    /\ e \in Responses(r)
    /\ requests' = requests \ {r}
    /\ replies' = replies \cup {e}
    /\ sent' = sent \cup {e}
    /\ UNCHANGED <<pc, cid, async, body, result, exc, registry, producers, hist, nextId, lock>>

\* The request is delivered twice (its acknowledgement was lost) and both
\* deliveries are answered: two Response Envelopes with the same
\* correlation_id and different contents.
DispatchRedelivered(r, e1, e2) ==
    /\ r \in requests
    /\ ~r.body.async
    /\ e1 \in Responses(r)
    /\ e2 \in Responses(r) \ {e1}
    /\ requests' = requests \ {r}
    /\ replies' = replies \cup {e1, e2}
    /\ sent' = sent \cup {e1, e2}
    /\ UNCHANGED <<pc, cid, async, body, result, exc, registry, producers, hist, nextId, lock>>

\* For a request marked async the dispatcher need not respond.
DispatchNoReply(r) ==
    /\ r \in requests
    /\ r.body.async
    /\ requests' = requests \ {r}
    /\ UNCHANGED <<pc, cid, async, body, result, exc, registry, producers, replies, sent, hist, nextId, lock>>

\* A duplicate delivery of a response already published.
DuplicateReply(e) ==
    /\ e \in sent \ replies
    /\ replies' = replies \cup {e}
    /\ UNCHANGED <<pc, cid, async, body, result, exc, registry, producers, requests, sent, hist, nextId, lock>>

\* A malformed message arrives on the callback queue.
MalformedReply ==
    /\ Malformed \notin replies
    /\ replies' = replies \cup {Malformed}
    /\ UNCHANGED <<pc, cid, async, body, result, exc, registry, producers, requests, sent, hist, nextId, lock>>

\* The listener's loop handles one delivered message.
OnMessage(m) ==
    /\ m \in replies
    /\ LockFree
    /\ replies' = replies \ {m}
    /\ registry' = Route(registry, m)
    /\ UNCHANGED <<pc, cid, async, body, result, exc, producers, requests, sent, hist, nextId, lock>>

AllMessages == sent \cup {Malformed}

Next ==
    \/ \E p \in Procs : sync_call(p)
    \/ \E p \in Procs : async_call(p)
    \/ \E p \in Procs : Thread(p)
    \/ \E r \in requests : \E e \in Responses(r) : Dispatch(r, e)
    \/ \E r \in requests : \E e1, e2 \in Responses(r) : DispatchRedelivered(r, e1, e2)
    \/ \E r \in requests : DispatchNoReply(r)
    \/ \E e \in sent : DuplicateReply(e)
    \/ MalformedReply
    \/ \E m \in replies : OnMessage(m)

Spec == Init /\ [][Next]_vars

\* Every thread inside _call keeps running: the scheduler starves no thread,
\* and a timed wait that is not satisfied elapses.
FairSpec == Spec /\ \A p \in Procs : WF_vars(Thread(p))

(* ------------------------------- claims ------------------------------- *)

SyncIds == {c \in Ids : hist[c].kind = "sync"}

AsyncIds == {c \in Ids : hist[c].kind = "async"}

DoneSync == {c \in SyncIds : hist[c].status = "done"}

\* The sync calls that ended with what get_result returned: a value or a remote error.
ByResponse == {c \in DoneSync : hist[c].published /\ ~hist[c].timed_out}

\* The sync calls whose publish raised.
PublishFailed(c) == hist[c].pubs = 1 /\ ~hist[c].published

\* C1: a sync_call that returns a value or raises a remote error does so with
\* the payload of a response envelope carrying its own correlation id; what
\* get_result handed to a call is never the content of an envelope addressed
\* to another id only.
C1_OwnResponseOnly ==
    /\ \A c \in ByResponse : \E e \in sent : e.correlation_id = c /\ e.payload = hist[c].outcome.payload /\ Decoded(e) = hist[c].got
    /\ \A p \in Procs : result[p] # NoResult => \E e \in sent : e.correlation_id = cid[p] /\ Decoded(e) = result[p]

\* Two sync calls ended with the results of their own requests, 3 and 30.
C1_Witness ==
    \E c1, c2 \in ByResponse :
        /\ hist[c1].outcome = Returned(PyInt(3))
        /\ hist[c2].outcome = Returned(PyInt(30))

\* A finished sync call whose add_listener raised.
AddListenerFailed(c) == hist[c].add_failed /\ hist[c].pubs = 0

\* C2: the Registry holds an entry only for a sync_call still in progress; a
\* call that returned or raised by any path (result, remote error, timeout,
\* publish failure, failure of add_listener) has none, and the Registry is no
\* larger than the number of sync_calls in flight.
C2_RegistryOnlyInFlight ==
    /\ \A c \in DOMAIN registry : c \in SyncIds /\ hist[c].status = "running" /\ \E p \in Procs : cid[p] = c /\ pc[p] # "idle"
    /\ \A c \in DoneSync : c \notin DOMAIN registry
    /\ \A c \in DoneSync : (hist[c].got # NoResult \/ hist[c].timed_out \/ PublishFailed(c) \/ AddListenerFailed(c)) /\ hist[c].removes = 1
    /\ Cardinality(DOMAIN registry) <= Cardinality({p \in Procs : pc[p] # "idle" /\ ~async[p]})

\* A sync call whose add_listener raised after it had inserted the entry has
\* ended, another has timed out and ended, and neither left an entry.
C2_Witness ==
    \E c1, c2 \in DoneSync :
        /\ AddListenerFailed(c1)
        /\ hist[c1].add_inserted
        /\ hist[c2].timed_out
        /\ registry = <<>>

\* C3: add_listener for a correlation id completes before the request with
\* that id is published, so a request or response of a sync call exists only
\* for an id the Registry has contained.
C3_RegisteredBeforePublish ==
    /\ \A c \in SyncIds : hist[c].pubs > 0 => hist[c].adds = 1
    /\ \A c \in SyncIds : hist[c].published => hist[c].registered_at_publish
    /\ \A r \in requests : ~r.body.async => hist[r.correlation_id].adds = 1
    /\ \A m \in replies : Decodes(m) /\ m.correlation_id \in SyncIds => hist[m.correlation_id].adds = 1

\* The response to a sync request is in the callback queue while its call waits.
C3_Witness ==
    \E m \in replies : \E p \in Procs :
        /\ Decodes(m)
        /\ m.correlation_id = cid[p]
        /\ pc[p] = "wait"
        /\ CanTimeOut(registry, cid[p])

\* C4: when the envelope obtained for a sync_call has kind Error the call raises
\* its payload unchanged; when it has kind Result the call returns its payload.
C4_ErrorRaisedResultReturned ==
    \A c \in DoneSync : \A e \in sent :
        (e.correlation_id = c /\ hist[c].got = Decoded(e)) =>
            /\ e.kind = "Error" => hist[c].outcome = Raised(e.payload)
            /\ e.kind = "Result" => hist[c].outcome = Returned(e.payload)

\* One call raised the ValueError("bad arg") the dispatcher reported, another
\* returned the sum.
C4_Witness ==
    \E c1, c2 \in DoneSync :
        /\ hist[c1].got = [type |-> "error", result |-> PyExc("ValueError", "bad arg")]
        /\ hist[c1].outcome = Raised(PyExc("ValueError", "bad arg"))
        /\ hist[c2].got.type = "result"
        /\ hist[c2].outcome.kind = "returned"

\* How a finished sync call ended.
EndedWithValue(c) == hist[c].got.type = "result" /\ hist[c].outcome = Returned(hist[c].got.result)

EndedWithRemoteError(c) == hist[c].got.type = "error" /\ hist[c].outcome = Raised(hist[c].got.result)

EndedWithTimeout(c) == hist[c].timed_out /\ hist[c].got = NoResult /\ hist[c].outcome = Raised(TimeoutExc)

EndedWithPublishFailure(c) == PublishFailed(c) /\ ~hist[c].timed_out /\ hist[c].got = NoResult /\ hist[c].outcome = Raised(PublishExc)

EndedWithAddListenerFailure(c) == AddListenerFailed(c) /\ ~hist[c].timed_out /\ hist[c].got = NoResult /\ hist[c].outcome = Raised(AddListenerExc)

\* C5 as stated: every finished sync_call ended with a returned value, a
\* re-raised remote error or a timeout error, and in no other way.
C5_ThreeOutcomes ==
    \A c \in DoneSync : EndedWithValue(c) \/ EndedWithRemoteError(c) \/ EndedWithTimeout(c)

\* C5 amended: every finished sync_call ended in exactly one of five ways: a
\* returned value, a re-raised remote error, a timeout error, the error
\* raised by the failed publish, or the error raised by a failed add_listener.
C5_FiveOutcomes ==
    \A c \in DoneSync :
        Cardinality({i \in 1..5 :
            \/ i = 1 /\ EndedWithValue(c)
            \/ i = 2 /\ EndedWithRemoteError(c)
            \/ i = 3 /\ EndedWithTimeout(c)
            \/ i = 4 /\ EndedWithPublishFailure(c)
            \/ i = 5 /\ EndedWithAddListenerFailure(c)}) = 1

\* A sync call ended with the publish failure, another with the failure of
\* add_listener.
C5_Witness ==
    \E c1, c2 \in DoneSync : EndedWithPublishFailure(c1) /\ EndedWithAddListenerFailure(c2)

\* C6: what a sync_call raises on a timeout differs from what any sync_call
\* raises for an error the remote side reported.
C6_TimeoutDistinct ==
    \A c1, c2 \in DoneSync :
        (hist[c1].timed_out /\ hist[c2].got.type = "error") => hist[c1].outcome # hist[c2].outcome

\* A step of thread p inside a call made with async=True.
AsyncStep(p) == pc'[p] # pc[p] /\ (async[p] \/ async'[p])

\* What an async call has done so far: no add_listener, no get_result, no
\* remove_listener, no entry in the Registry, one publish attempt at most and
\* exactly one when it has ended, and the body it published says async.
AsyncFrame(c) ==
    /\ hist[c].adds = 0
    /\ hist[c].waits = 0
    /\ hist[c].removes = 0
    /\ hist[c].pubs <= 1
    /\ c \notin DOMAIN registry
    /\ hist[c].status = "done" => hist[c].pubs = 1
    /\ hist[c].published => hist[c].is_async = "true"
    /\ \A r \in requests : r.correlation_id = c => r.body.async

\* C7 as stated: async_call calls none of add_listener, get_result and
\* remove_listener, leaves the Registry unchanged, makes exactly one publish
\* attempt with is_async=true, and returns with no result after it.
C7_AsyncAlwaysReturns ==
    /\ [](\A c \in AsyncIds : AsyncFrame(c))
    /\ [](\A p \in Procs : async[p] => pc[p] # "wait" /\ result[p] = NoResult)
    /\ [][\A p \in Procs : AsyncStep(p) => registry' = registry]_vars
    /\ [](\A c \in AsyncIds : hist[c].status = "done" => hist[c].outcome = Returned(PyNone))

\* C7 amended: async_call calls none of add_listener, get_result and
\* remove_listener; every step of it leaves the Registry unchanged; it makes
\* exactly one publish attempt, with is_async=true; when the publish
\* succeeds it returns None at once, whatever the remote side answers, and
\* when the publish fails it raises the error of the publish.
C7_AsyncFrame ==
    /\ [](\A c \in AsyncIds : AsyncFrame(c))
    /\ [](\A p \in Procs : async[p] => pc[p] # "wait" /\ result[p] = NoResult)
    /\ [][\A p \in Procs : AsyncStep(p) => registry' = registry]_vars
    /\ [](\A c \in AsyncIds : (hist[c].status = "done" /\ hist[c].published) => hist[c].outcome = Returned(PyNone))
    /\ [](\A c \in AsyncIds : (hist[c].status = "done" /\ ~hist[c].published) => hist[c].outcome = Raised(PublishExc))

\* An async call returned None although the dispatcher answered its request
\* with an error, while a sync call was registered; its request said async.
C7_Witness ==
    \E c \in AsyncIds :
        /\ hist[c].status = "done"
        /\ hist[c].is_async = "true"
        /\ hist[c].outcome = Returned(PyNone)
        /\ \E e \in sent : e.correlation_id = c /\ e.kind = "Error"
        /\ registry # <<>>

\* The dispatcher published no response for correlation id c.
NoResponse(c) == \A e \in sent : e.correlation_id # c

\* C8: every sync_call whose request was published terminates; when no
\* response for its id exists, it ends by raising the timeout error.
C8_PublishedTerminates ==
    /\ \A c \in Ids : (hist[c].kind = "sync" /\ hist[c].published) ~> (hist[c].status = "done")
    /\ [](\A c \in DoneSync : (hist[c].published /\ NoResponse(c)) => EndedWithTimeout(c))

\* A published sync call nobody answered has ended with the timeout error.
C8_Witness ==
    \E c \in DoneSync : hist[c].published /\ NoResponse(c) /\ hist[c].outcome = Raised(TimeoutExc)

\* C9: each sync_call invokes remove_listener exactly once, before it
\* returns or raises, on every exit path.
C9_RemoveExactlyOnce ==
    /\ \A c \in SyncIds : hist[c].removes <= 1
    /\ \A c \in DoneSync : hist[c].removes = 1 /\ hist[c].removed_at = "running"
    /\ \A p \in Procs : (~async[p] /\ pc[p] = "exit") => hist[cid[p]].removes = 1
    /\ \A p \in Procs : (~async[p] /\ pc[p] \in {"acquire", "publish", "release", "wait", "finally"}) => hist[cid[p]].removes = 0

\* Sync calls have ended by a publish failure and by a remote error, each
\* after one remove_listener.
C9_Witness ==
    \E c1, c2 \in DoneSync :
        /\ PublishFailed(c1)
        /\ hist[c2].got.type = "error"
        /\ hist[c1].removes = 1
        /\ hist[c2].removes = 1

\* The listener handles message m, whose correlation id is not in the Registry.
Drops(m) == OnMessage(m) /\ Decodes(m) /\ m.correlation_id \notin DOMAIN registry

\* Every Waiting Pending Call would be fulfilled by a response carrying its id.
StillFulfillable ==
    \A c \in DOMAIN registry : \A e \in AllMessages :
        (registry[c].state = "Waiting" /\ Decodes(e) /\ e.correlation_id = c) =>
            Route(registry, e)[c] = Fulfilled(e)

\* C10: a response whose correlation id is not in the Registry is dropped:
\* the Registry, every Pending Call and every caller are unchanged, and the
\* other pending calls can still be fulfilled by their own responses.
C10_UnknownIdDropped ==
    /\ [][\A m \in replies : Drops(m) => (UNCHANGED <<registry, pc, cid, async, body, result, exc, hist>> /\ StillFulfillable')]_vars
    /\ []StillFulfillable

\* A response for a call that already timed out and returned (its id removed)
\* is in the callback queue while another call is waiting for its own.
C10_Witness ==
    \E m \in replies : \E p \in Procs :
        /\ Decodes(m)
        /\ m.correlation_id \in DoneSync
        /\ hist[m.correlation_id].timed_out
        /\ m.correlation_id \notin DOMAIN registry
        /\ pc[p] = "wait"
        /\ CanTimeOut(registry, cid[p])

\* C11: a call makes at most one publish attempt; when the publish fails the
\* failure propagates to the caller, nothing is published again, and a
\* sync_call does not wait for a result.
C11_PublishOnceFailurePropagates ==
    /\ \A c \in Ids : hist[c].pubs <= 1
    /\ \A c \in Ids : (hist[c].status = "done" /\ PublishFailed(c)) => (hist[c].outcome = Raised(PublishExc) /\ hist[c].waits = 0)
    /\ \A p \in Procs : (pc[p] # "idle" /\ PublishFailed(cid[p])) => (exc[p] = PublishExc /\ pc[p] \in {"release", "finally", "exit"})
    /\ \A r \in requests : hist[r.correlation_id].published

\* A sync call and an async call have both ended with the error of their
\* failed publish, after one attempt each.
C11_Witness ==
    \E c1 \in DoneSync : \E c2 \in AsyncIds :
        /\ PublishFailed(c1)
        /\ PublishFailed(c2)
        /\ hist[c1].outcome = Raised(PublishExc)
        /\ hist[c2].outcome = Raised(PublishExc)

\* C12: handling a malformed message consumes it and changes neither the
\* Registry nor any caller; the listener goes on, and every other message of
\* the queue is routed afterwards as it would have been before.
C12_MalformedDropped ==
    [][OnMessage(Malformed) =>
        /\ UNCHANGED <<registry, pc, cid, async, body, result, exc, hist>>
        /\ replies' = replies \ {Malformed}
        /\ StillFulfillable'
        /\ \A m \in replies' : Route(registry', m) = Route(registry, m)]_vars

\* A malformed message is in the callback queue together with the valid
\* response of a call that is still waiting.
C12_Witness ==
    /\ Malformed \in replies
    /\ \E m \in replies : \E p \in Procs :
        /\ Decodes(m)
        /\ m.correlation_id = cid[p]
        /\ pc[p] = "wait"
        /\ CanTimeOut(registry, cid[p])

\* C13 as stated: a Pending Call leaves Waiting at most once: an entry that
\* is TimedOut or Fulfilled does not change any more until it is removed, so
\* a late response does not turn a TimedOut call into Fulfilled and a second
\* response does not change the outcome of a Fulfilled call.
C13_LeavesWaitingOnce ==
    [][\A c \in DOMAIN registry : (registry[c].state # "Waiting" /\ c \in DOMAIN registry') => registry'[c] = registry[c]]_vars

\* The wait of thread p has ended: by a result or by the timeout.
WaitEnded(p) == ~async[p] /\ pc[p] \in {"finally", "exit"} /\ hist[cid[p]].waits = 1

\* What the caller holds after its wait agrees with how the wait ended.
WaitOutcomeKept(p) ==
    /\ hist[cid[p]].timed_out => (exc[p] = TimeoutExc /\ result[p] = NoResult /\ hist[cid[p]].got = NoResult)
    /\ ~hist[cid[p]].timed_out => (result[p] = hist[cid[p]].got /\ result[p] # NoResult /\ exc[p] = Raises(result[p]))

\* C13 amended: the wait of a sync_call ends at most once, by a result or by
\* the timeout and never both; the timed wait marks only a Waiting call
\* TimedOut; the listener marks a Pending Call it finds Fulfilled in whatever
\* state it is, so a late response does turn a TimedOut call into Fulfilled
\* and a second response is stored too, but neither changes what the caller
\* holds once its wait has ended: a timed out call still raises the timeout
\* error, and a call that obtained a result returns or raises that result.
C13_WaitEndsOnce ==
    /\ [](\A c \in SyncIds : hist[c].waits <= 1 /\ ~(hist[c].timed_out /\ hist[c].got # NoResult))
    /\ [](\A p \in Procs : WaitEnded(p) => WaitOutcomeKept(p))
    /\ [][\A p \in Procs : (WaitEnded(p) /\ pc'[p] # "idle") => (WaitEnded(p)' /\ result'[p] = result[p] /\ exc'[p] = exc[p])]_vars
    /\ [](\A c \in DoneSync : (hist[c].timed_out => EndedWithTimeout(c)) /\ (hist[c].got # NoResult => EndedWithValue(c) \/ EndedWithRemoteError(c)))
    /\ [][\A c \in DOMAIN registry \cap DOMAIN registry' : registry'[c] # registry[c] =>
            \/ registry[c].state = "Waiting" /\ registry'[c].state = "TimedOut" /\ hist'[c].timed_out
            \/ registry'[c].state = "Fulfilled" /\ \E m \in replies : OnMessage(m) /\ m.correlation_id = c /\ Decodes(m)]_vars
    /\ [][\A c \in DOMAIN registry' \ DOMAIN registry : hist[c].adds = 0]_vars

\* The listener has marked the Pending Call of a timed out call Fulfilled
\* before its remove_listener ran, and a second, different response has
\* replaced the outcome of a call whose caller already holds the first.
C13_Witness ==
    \E p, q \in Procs :
        /\ WaitEnded(p)
        /\ hist[cid[p]].timed_out
        /\ CanGet(registry, cid[p])
        /\ exc[p] = TimeoutExc
        /\ WaitEnded(q)
        /\ result[q] # NoResult
        /\ CanGet(registry, cid[q])
        /\ registry[cid[q]].outcome # result[q]

\* The step is one of the listener: it handles a message of the callback queue.
ListenerStep == \E m \in replies : OnMessage(m)

\* Thread p runs the remove_listener of its own sync call.
RemovesOwn(p, c) == cid[p] = c /\ ~async[p] /\ pc[p] = "finally" /\ pc'[p] = "exit"

\* C14: no step of the listener (fulfil, drop, decode error) changes the set
\* of registered ids, and an id leaves the Registry only in the step in which
\* the sync_call that registered it runs its remove_listener.
C14_ListenerNeverRemoves ==
    /\ [][ListenerStep => DOMAIN registry' = DOMAIN registry]_vars
    /\ [][\A c \in DOMAIN registry \ DOMAIN registry' : \E p \in Procs : RemovesOwn(p, c)]_vars

\* The listener has fulfilled a call whose entry is still registered, while
\* the entry of a second call is registered too.
C14_Witness ==
    \E p, q \in Procs :
        /\ p # q
        /\ pc[p] = "wait"
        /\ CanGet(registry, cid[p])
        /\ cid[q] \in DOMAIN registry

\* C15: the correlation id of an async_call is never in the Registry, so the
\* listener drops every response to an async call, and what a Pending Call
\* is fulfilled with is always a response carrying the id of its sync call.
C15_AsyncNeverRegistered ==
    /\ [](\A c \in AsyncIds : c \notin DOMAIN registry /\ hist[c].adds = 0)
    /\ [](\A c \in DOMAIN registry : c \in SyncIds)
    /\ [](\A c \in DOMAIN registry : registry[c].state = "Fulfilled" => \E e \in sent : e.correlation_id = c /\ Decoded(e) = registry[c].outcome)
    /\ [][\A m \in replies : (OnMessage(m) /\ m.correlation_id \in AsyncIds) => UNCHANGED <<registry, result, exc, hist>>]_vars

\* The response to an async call is in the callback queue while a sync call
\* waits for its own.
C15_Witness ==
    \E m \in replies : \E p \in Procs :
        /\ Decodes(m)
        /\ m.correlation_id \in AsyncIds
        /\ pc[p] = "wait"
        /\ CanTimeOut(registry, cid[p])

\* Some caller is blocked in get_result.
SomeoneWaits == \E p \in Procs : pc[p] = "wait"

\* C16: while callers are blocked in get_result none of them holds the
\* Registry's structural lock, so another caller's add_listener and
\* remove_listener and the listener's lookup-and-fulfil can proceed.
C16_WaitHoldsNoLock ==
    SomeoneWaits =>
        /\ \A p \in Procs : pc[p] = "wait" => lock # p
        /\ LockFree
        /\ \A q \in Procs : (pc[q] = "idle" /\ nextId <= MaxCalls) => ENABLED sync_call(q)
        /\ \A q \in Procs : pc[q] = "finally" => ENABLED Finally(q)
        /\ \A m \in replies : ENABLED OnMessage(m)

\* One caller is blocked in get_result while another is about to run its
\* remove_listener and a response is waiting for the listener.
C16_Witness ==
    \E p, q \in Procs : \E m \in replies :
        /\ pc[p] = "wait"
        /\ CanTimeOut(registry, cid[p])
        /\ pc[q] = "finally"
        /\ ~async[q]
        /\ Decodes(m)

\* Thread p is inside the with block: between acquire and the release.
InsideWith(p) == pc[p] \in {"publish", "release"}

\* C17: a producer is held only inside the with block and is returned when
\* the block is left, whichever way the publish ended: never more than the
\* pool holds are out, a holder can always leave the block, a caller at
\* acquire is blocked exactly while the pool is exhausted, and when no call
\* is running every producer is back in the pool.
C17_ProducerAlwaysReturned ==
    /\ Cardinality(producers) <= PoolSize
    /\ \A p \in Procs : p \in producers <=> InsideWith(p)
    /\ \A p \in Procs : pc[p] = "release" => ENABLED Release(p)
    /\ \A p \in Procs : pc[p] = "acquire" => ((ENABLED Acquire(p)) <=> Cardinality(producers) < PoolSize)
    /\ (\A p \in Procs : pc[p] = "idle") => producers = {}

\* After a call ended with a publish failure, the next caller holds the last
\* producer of the pool: its request is already queued and it has not left
\* the with block yet.
C17_Witness ==
    \E c \in Ids : \E p \in Procs :
        /\ hist[c].status = "done"
        /\ PublishFailed(c)
        /\ p \in producers
        /\ pc[p] = "release"
        /\ hist[cid[p]].published
        /\ Cardinality(producers) = PoolSize

\* C18: a sync_call waiting for its result holds no producer, so callers
\* blocked in get_result never keep another call from acquiring one.
C18_NoProducerWhileWaiting ==
    /\ \A p \in Procs : pc[p] = "wait" => p \notin producers
    /\ \A q \in Procs : (pc[q] = "acquire" /\ Cardinality({p \in Procs \ {q} : InsideWith(p)}) < PoolSize) => ENABLED Acquire(q)

\* With a pool of one producer, a caller publishes while another call waits
\* for a response.
C18_Witness ==
    \E p, q \in Procs :
        /\ pc[p] = "wait"
        /\ CanTimeOut(registry, cid[p])
        /\ pc[q] = "publish"
        /\ q \in producers

====
